---- MODULE Spec2Model ----
(***************************************************************************)
(* Model of streamlit_app.py: the sqlite store (physicians, availability,  *)
(* appointments), the handles returned by init_db, and the operations      *)
(* seed_sample_data, list_slots_for_physician and book_slot.               *)
(*                                                                         *)
(* Time is counted in ticks of 30 minutes since 00:00 UTC of model day 0.  *)
(* A uuid4 is a fresh value: physicians are numbered in insertion order,   *)
(* a slot id is the triple <<physician, day, hour>> it was created for and *)
(* appointment ids come from a counter.                                    *)
(*                                                                         *)
(* sqlite is modelled in its default rollback-journal mode: one connection *)
(* at a time holds the write lock; its uncommitted rows are visible to     *)
(* that connection only and become the committed store at COMMIT.  Python's*)
(* sqlite3 opens the transaction implicitly before the first INSERT/UPDATE *)
(* and never rolls back on its own.                                        *)
(***************************************************************************)
EXTENDS Integers, Sequences, FiniteSets, TLC

\* ------------------------------------------------------------------ bounds
\* Number of concurrent callers of book_slot (one call each).
NumCallers == 2
\* Number of store handles init_db may hand out.
NumConns == 2
\* Model day (UTC) on which Europe/Madrid leaves summer time.
DstEndDay == 3

\* ------------------------------------------------------- program constants
TicksPerDay == 48
TicksPerHour == 2
SeedDays == 7
SlotTicks == 1

Callers == 1..NumCallers
Conns == 1..NumConns

SeedHours == <<14, 15, 16>>

\* The sample physicians of seed_sample_data, in insertion order.
sample ==
  << [full_name |-> "Dr. Aisha Rahman", country |-> "Pakistan", timezone |-> "Asia/Karachi"],
     [full_name |-> "Dr. Mateo Alvarez", country |-> "Spain", timezone |-> "Europe/Madrid"],
     [full_name |-> "Dr. Hana Sato", country |-> "Japan", timezone |-> "Asia/Tokyo"] >>

\* -------------------------------------------------------------- time zones
\* Day (UTC) on which Europe/Madrid leaves summer time, at 01:00 UTC.
DstEndTick == DstEndDay * TicksPerDay + TicksPerHour

KnownZones == {"Asia/Karachi", "Europe/Madrid", "Asia/Tokyo", "America/New_York"}

\* utcoffset of zone z at the absolute instant t (ticks).
UtcOffsetAt(z, t) ==
  CASE z = "Asia/Karachi" -> 5 * TicksPerHour
    [] z = "Asia/Tokyo" -> 9 * TicksPerHour
    [] z = "Europe/Madrid" -> IF t < DstEndTick THEN 2 * TicksPerHour ELSE TicksPerHour
    [] z = "America/New_York" -> 0 - 5 * TicksPerHour
    [] OTHER -> 0

\* Standard-time offset of zone z.
StdOffset(z) ==
  CASE z = "Europe/Madrid" -> TicksPerHour
    [] OTHER -> UtcOffsetAt(z, 0)

\* datetime.now(tz) / astimezone(tz): the local wall clock of instant t.
ToLocal(t, z) == t + UtcOffsetAt(z, t)

\* Mutant: the zone's standard offset is applied to every wall time.
Localize_std(l, z) == l - StdOffset(z)

\* tz.localize(naive) followed by astimezone(utc): an offset is valid for the
\* wall time l when the zone really has it at the resulting instant; pytz's
\* default is_dst=False picks standard time when both (or none) are valid.
Localize(l, z) ==
  LET offs == {UtcOffsetAt(z, 0), UtcOffsetAt(z, DstEndTick)}
      ok == {o \in offs : UtcOffsetAt(z, l - o) = o}
  IN IF Cardinality(ok) = 1 THEN l - (CHOOSE o \in ok : TRUE)
     ELSE l - StdOffset(z)

\* ------------------------------------------------------------- ISO strings
\* A timestamp column holds datetime.isoformat() text and sqlite compares it
\* as text.  The first 19 characters (date and time to the second) are of
\* fixed width and order as the instant does; what follows is "+00:00" for
\* an aware UTC datetime, nothing for a naive datetime whose microsecond is
\* 0, and ".ffffff" otherwise.  '+' (0x2B) sorts before '.' (0x2E), and a
\* string sorts after each of its proper prefixes.
SuffixNone == "none"
SuffixUtc == "utc"
SuffixMicro == "micro"
SuffixRank(x) == CASE x = SuffixNone -> 0 [] x = SuffixUtc -> 1 [] x = SuffixMicro -> 2

\* aware.astimezone(pytz.utc).isoformat() of a whole-tick instant
IsoAware(t) == [sec |-> t, suffix |-> SuffixUtc]
\* datetime.utcnow().isoformat(); now = [t, micro], micro = 0 or not
IsoNaive(now) == [sec |-> now.t, suffix |-> IF now.micro = 0 THEN SuffixNone ELSE SuffixMicro]

\* text comparison a >= b of two such strings
TextGE(a, b) ==
  \/ a.sec > b.sec
  \/ a.sec = b.sec /\ SuffixRank(a.suffix) >= SuffixRank(b.suffix)
TextLE(a, b) == TextGE(b, a)

\* ------------------------------------------------------------------- state
VARIABLES
  tables,     \* TRUE once CREATE TABLE has run on the database file
  opened,     \* the handles get_conn has returned
  committed,  \* the committed rows: physicians, availability, appointments
  pending,    \* the rows as the lock holder's open transaction sees them
  lockHolder, \* the handles with an open write transaction: none or one
  nextAppt,   \* number of appointment uuids drawn so far
  pc,         \* per caller: the statement of book_slot it is about to run
  loc,        \* per caller: arguments and locals of its book_slot call
  ret,        \* per caller: what book_slot returned (or raised)
  listed,     \* the last result of list_slots_for_physician
  shown,      \* the last conversion between an instant and a local time
  hist        \* history: what each call saw and did (not program state)

vars == <<tables, opened, committed, pending, lockHolder, nextAppt, pc, loc, ret, listed, shown, hist>>

EmptyFn == [x \in {} |-> x]
EmptyStore == [physicians |-> EmptyFn, availability |-> EmptyFn, appointments |-> EmptyFn]

\* What a statement on handle c reads: its own open transaction, else the
\* committed store.
View(c) == IF c \in lockHolder THEN pending ELSE committed

\* A write statement on handle c can run when no other handle holds the
\* write lock (otherwise sqlite reports "database is locked").
CanWrite(c) == lockHolder \subseteq {c}

Extend(f, k, v) == [x \in DOMAIN f \cup {k} |-> IF x = k THEN v ELSE f[x]]

\* Mutant: the connection waits for the write lock without a time limit.
BusyTimeout_never(c) == FALSE

\* sqlite3.connect(DB_PATH, ...) keeps the default timeout of 5 seconds: a
\* write statement that finds the lock held by another handle for that long
\* raises OperationalError("database is locked").
BusyTimeout(c) == ~CanWrite(c)

\* Mutant: the handle never turns foreign keys on.
ForeignKeysOff == FALSE

\* PRAGMA foreign_keys = ON, run by get_conn on every handle.
ForeignKeysOn == TRUE

\* A row with this physician_id violates FOREIGN KEY(physician_id) in store st.
NoParent(st, physician_id) == ForeignKeysOn /\ physician_id \notin DOMAIN st.physicians

\* The store after one more write statement of handle c: the implicit BEGIN
\* of Python's sqlite3 takes the write lock and starts from the committed rows.
Written(c, store) ==
  /\ CanWrite(c)
  /\ pending' = store
  /\ lockHolder' = {c}
  /\ UNCHANGED committed

\* Mutant: the open transaction is dropped instead of committed.
Commit_drop(c) ==
  IF c \in lockHolder
  THEN /\ committed' = committed
       /\ pending' = EmptyStore
       /\ lockHolder' = {}
  ELSE UNCHANGED <<committed, pending, lockHolder>>

\* conn.commit() on handle c: the open transaction of c, if any, becomes the
\* committed store and the lock is released.
Commit(c) ==
  IF c \in lockHolder
  THEN /\ committed' = pending
       /\ pending' = EmptyStore
       /\ lockHolder' = {}
  ELSE UNCHANGED <<committed, pending, lockHolder>>

\* ---------------------------------------------------------------- init_db
\* get_conn + CREATE TABLE IF NOT EXISTS + commit on the new handle.
init_db(c) ==
  /\ c \notin opened
  /\ opened' = opened \cup {c}
  /\ tables' = TRUE
  /\ UNCHANGED <<committed, pending, lockHolder, nextAppt, pc, loc, ret, listed, shown, hist>>

\* -------------------------------------------------------- seed_sample_data
SlotIdOf(p, d, h) == <<p, d, h>>

\* The availability row of physician p (zone z) for day offset d, hour h,
\* seeded when the zone's calendar day is today_local.
SeedSlot(p, z, today_local, d, h) ==
  LET start_local == (today_local + d) * TicksPerDay + h * TicksPerHour
      start_utc == Localize(start_local, z)
      end_utc == start_utc + SlotTicks
  IN [physician_id |-> p, start_utc |-> IsoAware(start_utc),
      end_utc |-> IsoAware(end_utc), booked |-> 0]

SeedPhysicians == [p \in DOMAIN sample |-> sample[p]]

SeedAvailability(now) ==
  LET keys == {SlotIdOf(p, d, SeedHours[i]) :
                 p \in DOMAIN sample, d \in 0..(SeedDays - 1), i \in DOMAIN SeedHours}
  IN [k \in keys |->
        LET z == sample[k[1]].timezone
            today_local == ToLocal(now.t, z) \div TicksPerDay
        IN SeedSlot(k[1], z, today_local, k[2], k[3])]

\* Mutant: the early return is never taken.
AlreadySeeded_never(st) == FALSE

\* lines 80-82: SELECT COUNT(*) FROM physicians; if count > 0: return
AlreadySeeded(st) == Cardinality(DOMAIN st.physicians) > 0

seed_sample_data(c, now) ==
  /\ tables /\ c \in opened
  /\ IF AlreadySeeded(View(c))
     THEN UNCHANGED <<committed, pending, lockHolder>>
     ELSE /\ CanWrite(c)
          /\ committed' = [View(c) EXCEPT !.physicians = SeedPhysicians,
                                          !.availability = SeedAvailability(now)]
          /\ pending' = EmptyStore
          /\ lockHolder' = {}
  /\ UNCHANGED <<tables, opened, nextAppt, pc, loc, ret, listed, shown, hist>>

\* ------------------------------------------------ list_slots_for_physician
\* ORDER BY start_utc ASC over a set of availability keys of store st.
RECURSIVE OrderByStart(_, _)
OrderByStart(st, keys) ==
  IF keys = {} THEN <<>>
  ELSE LET first == CHOOSE k \in keys :
                      \A j \in keys : TextLE(st.availability[k].start_utc,
                                             st.availability[j].start_utc)
       IN <<first>> \o OrderByStart(st, keys \ {first})

\* Mutant: the future filter compares the wrong way round (end_utc <= ?).
SlotFilter_reversed(row, physician_id, only_future, now) ==
  /\ row.physician_id = physician_id
  /\ only_future => TextLE(row.end_utc, IsoNaive(now))

\* WHERE physician_id = ? [AND end_utc >= ?]
SlotFilter(row, physician_id, only_future, now) ==
  /\ row.physician_id = physician_id
  /\ only_future => TextGE(row.end_utc, IsoNaive(now))

ListRows(st, physician_id, only_future, now) ==
  LET keys == {k \in DOMAIN st.availability :
                 SlotFilter(st.availability[k], physician_id, only_future, now)}
      order == OrderByStart(st, keys)
  IN [i \in DOMAIN order |->
        [id |-> order[i],
         start_utc |-> st.availability[order[i]].start_utc,
         end_utc |-> st.availability[order[i]].end_utc,
         booked |-> st.availability[order[i]].booked]]

list_slots_for_physician(c, physician_id, only_future, now) ==
  /\ tables /\ c \in opened
  /\ listed' = [physician_id |-> physician_id, only_future |-> only_future,
                now |-> now, conn |-> c,
                rows |-> ListRows(View(c), physician_id, only_future, now)]
  /\ UNCHANGED <<tables, opened, committed, pending, lockHolder, nextAppt, pc, loc, ret, hist, shown>>

\* ---------------------------------------------------------------- book_slot
ErrNone == "none"
ErrSlotNotFound == "Slot not found."
ErrJustBooked == "Sorry, this slot was just booked."
ErrPhysicianNotFound == "Physician not found."
ErrRaised == "raised"

\* str(uuid.uuid4()) for the n-th appointment
ApptId(n) == <<"appt", n>>
NoAppt == <<>>
NoRow == [physician_id |-> 0, start_utc |-> IsoAware(0), end_utc |-> IsoAware(0)]
NoLoc == [conn |-> 0, slot_id |-> <<0, 0, 0>>, user_name |-> "", user_email |-> "",
          user_tz |-> "", reason |-> "", now |-> [t |-> 0, micro |-> 0],
          row |-> NoRow, physician_name |-> "", appt_id |-> NoAppt]
NoRet == [appt_id |-> NoAppt, err |-> ErrNone]
NoHist == [peers |-> {}, free |-> FALSE, appts0 |-> {}, name_read |-> ""]

Active(t) == pc[t] \notin {"idle", "done"}

\* return (appt_id, err) of caller t
Return(t, appt_id, err) ==
  /\ pc' = [pc EXCEPT ![t] = "done"]
  /\ ret' = [ret EXCEPT ![t] = [appt_id |-> appt_id, err |-> err]]

\* The call of book_slot(conn, slot_id, user_name, user_email, user_tz, reason)
\* by caller t.  The history notes who else is inside book_slot, whether the
\* slot is free with its physician present, and which appointments exist, in
\* the store as handle c sees it at this moment.
book_call(t, c, slot_id, patient) ==
  /\ tables /\ c \in opened
  /\ pc[t] = "idle"
  /\ pc' = [pc EXCEPT ![t] = "select_slot"]
  /\ loc' = [loc EXCEPT ![t] = [NoLoc EXCEPT !.conn = c, !.slot_id = slot_id,
                                  !.user_name = patient.user_name,
                                  !.user_email = patient.user_email,
                                  !.reason = patient.reason,
                                  !.user_tz = patient.user_tz]]
  /\ hist' = [u \in Callers |->
                IF u = t
                THEN [NoHist EXCEPT
                        !.peers = {v \in Callers : Active(v)},
                        !.appts0 = DOMAIN View(c).appointments,
                        !.free = /\ slot_id \in DOMAIN View(c).availability
                                 /\ View(c).availability[slot_id].booked = 0
                                 /\ View(c).availability[slot_id].physician_id
                                      \in DOMAIN View(c).physicians]
                ELSE IF Active(u) THEN [hist[u] EXCEPT !.peers = @ \cup {t}]
                ELSE hist[u]]
  /\ UNCHANGED <<tables, opened, committed, pending, lockHolder, nextAppt, ret, listed, shown>>

\* Mutant: the booked flag is not checked.
SlotTaken_unchecked(row) == FALSE

\* line 179: if booked
SlotTaken(row) == row.booked # 0

\* lines 174-180: SELECT the slot row, return if missing or booked
book_select_slot(t) ==
  LET c == loc[t].conn
      av == View(c).availability
      id == loc[t].slot_id
  IN /\ pc[t] = "select_slot"
     /\ IF id \notin DOMAIN av
        THEN Return(t, NoAppt, ErrSlotNotFound) /\ UNCHANGED loc
        ELSE IF SlotTaken(av[id])
        THEN Return(t, NoAppt, ErrJustBooked) /\ UNCHANGED loc
        ELSE /\ pc' = [pc EXCEPT ![t] = "select_physician"]
             /\ loc' = [loc EXCEPT ![t].row = [physician_id |-> av[id].physician_id,
                                               start_utc |-> av[id].start_utc,
                                               end_utc |-> av[id].end_utc]]
             /\ UNCHANGED ret
     /\ UNCHANGED <<tables, opened, committed, pending, lockHolder, nextAppt, listed, shown, hist>>

\* Mutant: the query selects another column of the physician.
PhysicianName_country(ph, pid) == ph[pid].country

\* line 182 and 186: SELECT full_name FROM physicians WHERE id = ?
PhysicianName(ph, pid) == ph[pid].full_name

\* Mutant: the result of fetchone() is not tested.
PhysicianMissing_unchecked(ph, pid) == FALSE

\* line 184: if not prow
PhysicianMissing(ph, pid) == pid \notin DOMAIN ph

\* lines 182-186: SELECT full_name of the slot's physician; prow[0] of a
\* missing row (None) raises TypeError.
book_select_physician(t) ==
  LET c == loc[t].conn
      ph == View(c).physicians
      pid == loc[t].row.physician_id
  IN /\ pc[t] = "select_physician"
     /\ IF PhysicianMissing(ph, pid)
        THEN Return(t, NoAppt, ErrPhysicianNotFound) /\ UNCHANGED <<loc, hist>>
        ELSE IF pid \notin DOMAIN ph
        THEN Return(t, NoAppt, ErrRaised) /\ UNCHANGED <<loc, hist>>
        ELSE /\ pc' = [pc EXCEPT ![t] = "insert"]
             /\ loc' = [loc EXCEPT ![t].physician_name = PhysicianName(ph, pid)]
             /\ hist' = [hist EXCEPT ![t].name_read = ph[pid].full_name]
             /\ UNCHANGED ret
     /\ UNCHANGED <<tables, opened, committed, pending, lockHolder, nextAppt, listed, shown>>

\* Mutant: the INSERT writes another status.
StatusNew_cancelled == "cancelled"

\* The status literal of the INSERT statement (line 192).
StatusNew == "scheduled"

\* Mutant: user_name and user_email change places in the parameter tuple.
ApptRow_swapped(l, created) ==
  [physician_id |-> l.row.physician_id,
   physician_name |-> l.physician_name,
   user_name |-> l.user_email,
   user_email |-> l.user_name,
   user_timezone |-> l.user_tz,
   start_utc |-> l.row.start_utc,
   end_utc |-> l.row.end_utc,
   meeting_link |-> <<"https://example.test/meet/", l.appt_id>>,
   reason |-> l.reason,
   created_at_utc |-> IsoNaive(created),
   status |-> StatusNew]

\* The appointments row of lines 189-194.
ApptRow(l, created) ==
  [physician_id |-> l.row.physician_id,
   physician_name |-> l.physician_name,
   user_name |-> l.user_name,
   user_email |-> l.user_email,
   user_timezone |-> l.user_tz,
   start_utc |-> l.row.start_utc,
   end_utc |-> l.row.end_utc,
   meeting_link |-> <<"https://example.test/meet/", l.appt_id>>,
   reason |-> l.reason,
   created_at_utc |-> IsoNaive(created),
   status |-> StatusNew]

\* Mutant: INSERT OR REPLACE under one fixed key, so the new row takes the
\* place of the rows before it.
InsertAppointment_replace(st, l, created) ==
  [st EXCEPT !.appointments = [x \in {l.appt_id} |-> ApptRow(l, created)]]

\* INSERT INTO appointments ... on store st
InsertAppointment(st, l, created) ==
  [st EXCEPT !.appointments = Extend(@, l.appt_id, ApptRow(l, created))]

\* Mutant: the UPDATE flips the flag instead of setting it.
UpdateBooked_flip(st, slot_id) ==
  IF slot_id \in DOMAIN st.availability
  THEN [st EXCEPT !.availability[slot_id].booked = 1 - @]
  ELSE st

\* UPDATE availability SET booked = 1 WHERE id = ? on store st
UpdateBooked(st, slot_id) ==
  IF slot_id \in DOMAIN st.availability
  THEN [st EXCEPT !.availability[slot_id].booked = 1]
  ELSE st

\* lines 187-194: draw the appointment id and INSERT the appointment; the
\* statement raises when another handle holds the write lock or when the
\* physician_id foreign key has no parent row.
book_insert(t, now) ==
  LET c == loc[t].conn
      l == [loc[t] EXCEPT !.appt_id = ApptId(nextAppt + 1)]
  IN /\ pc[t] = "insert"
     /\ nextAppt' = nextAppt + 1
     /\ loc' = [loc EXCEPT ![t] = l]
     /\ \/ /\ CanWrite(c)
           /\ ~NoParent(View(c), l.row.physician_id)
           /\ Written(c, InsertAppointment(View(c), l, now))
           /\ pc' = [pc EXCEPT ![t] = "update"]
           /\ UNCHANGED ret
        \/ /\ BusyTimeout(c) \/ (CanWrite(c) /\ NoParent(View(c), l.row.physician_id))
           /\ Return(t, NoAppt, ErrRaised)
           /\ UNCHANGED <<committed, pending, lockHolder>>
     /\ UNCHANGED <<tables, opened, listed, shown, hist>>

\* line 195: mark the slot booked
book_update(t) ==
  LET c == loc[t].conn
  IN /\ pc[t] = "update"
     /\ \/ /\ CanWrite(c)
           /\ Written(c, UpdateBooked(View(c), loc[t].slot_id))
           /\ pc' = [pc EXCEPT ![t] = "commit"]
           /\ UNCHANGED ret
        \/ /\ BusyTimeout(c)
           /\ Return(t, NoAppt, ErrRaised)
           /\ UNCHANGED <<committed, pending, lockHolder>>
     /\ UNCHANGED <<tables, opened, nextAppt, loc, listed, shown, hist>>

\* lines 196-197: commit and return the appointment id
book_commit(t) ==
  /\ pc[t] = "commit"
  /\ Commit(loc[t].conn)
  /\ Return(t, loc[t].appt_id, ErrNone)
  /\ UNCHANGED <<tables, opened, nextAppt, loc, listed, shown, hist>>

\* A statement of lines 189-196 fails (I/O error, interrupt, a timeout the
\* caller imposes): the exception leaves book_slot, which has no except
\* clause and no rollback, so the handle's transaction stays open.
book_raise(t) ==
  /\ pc[t] \in {"insert", "update", "commit"}
  /\ Return(t, NoAppt, ErrRaised)
  /\ UNCHANGED <<tables, opened, committed, pending, lockHolder, nextAppt, loc, listed, shown, hist>>

\* ------------------------------------------------------------------ inputs
SeedClock == {[t |-> 17, micro |-> 1], [t |-> 30, micro |-> 0]}
ListClock == {[t |-> 19, micro |-> 0], [t |-> 19, micro |-> 1], [t |-> 20, micro |-> 0]}
BookClock == {[t |-> 18, micro |-> 1]}
ListPhysicians == {1, 4}
BookSlotIds == {SlotIdOf(1, 0, 14), SlotIdOf(2, 0, 15), SlotIdOf(4, 0, 14)}
Patients ==
  {[user_name |-> "Ana", user_email |-> "ana@example.test", reason |-> "fever",
    user_tz |-> "America/New_York"],
   [user_name |-> "Bo", user_email |-> "bo@example.test", reason |-> "",
    user_tz |-> "Mars/Olympus"]}

\* ----------------------------------------------------------- specification
Init ==
  /\ tables = FALSE
  /\ opened = {}
  /\ committed = EmptyStore
  /\ pending = EmptyStore
  /\ lockHolder = {}
  /\ nextAppt = 0
  /\ pc = [t \in Callers |-> "idle"]
  /\ loc = [t \in Callers |-> NoLoc]
  /\ ret = [t \in Callers |-> NoRet]
  /\ listed = <<>>
  /\ shown = <<>>
  /\ hist = [t \in Callers |-> NoHist]

Next ==
  \/ \E c \in Conns : init_db(c)
  \/ \E c \in Conns, now \in SeedClock : seed_sample_data(c, now)
  \/ \E t \in Callers, c \in Conns, id \in BookSlotIds, u \in Patients :
       book_call(t, c, id, u)
  \/ \E t \in Callers : book_select_slot(t)
  \/ \E t \in Callers : book_select_physician(t)
  \/ \E t \in Callers, now \in BookClock : book_insert(t, now)
  \/ \E t \in Callers : book_update(t)
  \/ \E t \in Callers : book_commit(t)
  \/ \E t \in Callers : book_raise(t)

Spec == Init /\ [][Next]_vars

\* The program with no statement failing other than by the busy timeout.
NextCalls ==
  \/ \E c \in Conns : init_db(c)
  \/ \E c \in Conns, now \in SeedClock : seed_sample_data(c, now)
  \/ \E t \in Callers, c \in Conns, id \in BookSlotIds, u \in Patients :
       book_call(t, c, id, u)
  \/ \E t \in Callers : book_select_slot(t)
  \/ \E t \in Callers : book_select_physician(t)
  \/ \E t \in Callers, now \in BookClock : book_insert(t, now)
  \/ \E t \in Callers : book_update(t)
  \/ \E t \in Callers : book_commit(t)

SpecCalls == Init /\ [][NextCalls]_vars

\* The statements of one book_slot call: the thread running the call is
\* scheduled until the call returns or raises.
book_step(t) ==
  \/ book_select_slot(t)
  \/ book_select_physician(t)
  \/ \E now \in BookClock : book_insert(t, now)
  \/ book_update(t)
  \/ book_commit(t)

\* Calls of one patient on two free slots of two physicians, every statement
\* able to fail.
FairSlotIds == {SlotIdOf(1, 0, 14), SlotIdOf(2, 0, 15)}
FairPatients == {u \in Patients : u.user_name = "Ana"}

NextFair ==
  \/ \E c \in Conns : init_db(c)
  \/ \E c \in Conns, now \in SeedClock : seed_sample_data(c, now)
  \/ \E t \in Callers, c \in Conns, id \in FairSlotIds, u \in FairPatients :
       book_call(t, c, id, u)
  \/ \E t \in Callers : book_step(t)
  \/ \E t \in Callers : book_raise(t)

\* Every thread that is inside book_slot keeps running.
SpecFair == Init /\ [][NextFair]_vars /\ \A t \in Callers : WF_vars(book_step(t))

\* The store with its read side: list_slots_for_physician beside one caller
\* of book_slot.  Listing writes nothing the other operations read.
ListCallers == {1}
ListPatients == {u \in Patients : u.user_name = "Ana"}

NextList ==
  \/ \E c \in Conns : init_db(c)
  \/ \E c \in Conns, now \in SeedClock : seed_sample_data(c, now)
  \/ \E c \in Conns, p \in ListPhysicians, f \in BOOLEAN, now \in ListClock :
       list_slots_for_physician(c, p, f, now)
  \/ \E t \in ListCallers, c \in Conns, id \in BookSlotIds, u \in ListPatients :
       book_call(t, c, id, u)
  \/ \E t \in ListCallers : book_select_slot(t)
  \/ \E t \in ListCallers : book_select_physician(t)
  \/ \E t \in ListCallers, now \in BookClock : book_insert(t, now)
  \/ \E t \in ListCallers : book_update(t)
  \/ \E t \in ListCallers : book_commit(t)
  \/ \E t \in ListCallers : book_raise(t)

SpecList == Init /\ [][NextList]_vars

\* The store with the physician directory beside it: a rename is an UPDATE
\* of physicians.full_name committed by the directory's own handle, which
\* needs the write lock like any other writer.
NewNames == {"Dr. A. Rahman-Khan"}
RenameTargets == {1}

rename_physician(p, name) ==
  /\ lockHolder = {}
  /\ p \in DOMAIN committed.physicians
  /\ committed.physicians[p].full_name # name
  /\ committed' = [committed EXCEPT !.physicians[p].full_name = name]
  /\ UNCHANGED <<tables, opened, pending, lockHolder, nextAppt, pc, loc, ret, listed, shown, hist>>

NextDir ==
  \/ Next
  \/ \E p \in RenameTargets, name \in NewNames : rename_physician(p, name)

SpecDir == Init /\ [][NextDir]_vars

\* ------------------------------------------------------- local-time display
\* Instants converted to local time and back: this many days before and
\* after Europe/Madrid leaves summer time.
TzDays == 1
TzInstants == (DstEndTick - TzDays * TicksPerDay)..(DstEndTick + TzDays * TicksPerDay - 1)
TzConns == {1}

\* datetime.fromisoformat(x) of a stored "+00:00" string: the instant.
ParseIso(x) == x.sec

\* to_user_local(x, user_tz): the stored UTC string as wall time of the zone.
to_user_local(x, z) == ToLocal(ParseIso(x), z)

\* An instant is shown in a zone and the wall time is read back as an instant
\* of the same zone.
round_trip(t, z) ==
  /\ shown' = [kind |-> "trip", instant |-> t, zone |-> z,
               local |-> to_user_local(IsoAware(t), z),
               back |-> Localize(to_user_local(IsoAware(t), z), z)]
  /\ UNCHANGED <<tables, opened, committed, pending, lockHolder, nextAppt, pc, loc, ret,
                 listed, hist>>

\* A stored slot is shown in the zone of its physician.
show_slot(c, id) ==
  /\ tables /\ c \in opened
  /\ id \in DOMAIN View(c).availability
  /\ LET row == View(c).availability[id]
         z == View(c).physicians[row.physician_id].timezone
     IN shown' = [kind |-> "slot", id |-> id, zone |-> z,
                  start_local |-> to_user_local(row.start_utc, z),
                  end_local |-> to_user_local(row.end_utc, z)]
  /\ UNCHANGED <<tables, opened, committed, pending, lockHolder, nextAppt, pc, loc, ret,
                 listed, hist>>

ShownSlotIds == {SlotIdOf(p, d, SeedHours[i]) :
                   p \in DOMAIN sample, d \in 0..(SeedDays - 1), i \in DOMAIN SeedHours}

NextTz ==
  \/ \E c \in TzConns : init_db(c)
  \/ \E c \in TzConns, now \in SeedClock : seed_sample_data(c, now)
  \/ \E t \in TzInstants, z \in KnownZones : round_trip(t, z)
  \/ \E c \in TzConns, id \in ShownSlotIds : show_slot(c, id)

SpecTz == Init /\ [][NextTz]_vars

\* ------------------------------------------------------ physician removal
\* DELETE FROM physicians WHERE id = p on a handle of get_conn: with foreign
\* keys on, ON DELETE CASCADE of availability and appointments removes the
\* physician's rows in both tables.
Cascade(st, p) ==
  IF ForeignKeysOn
  THEN [physicians |-> [x \in DOMAIN st.physicians \ {p} |-> st.physicians[x]],
        availability |->
          [x \in {y \in DOMAIN st.availability : st.availability[y].physician_id # p}
             |-> st.availability[x]],
        appointments |->
          [x \in {y \in DOMAIN st.appointments : st.appointments[y].physician_id # p}
             |-> st.appointments[x]]]
  ELSE [st EXCEPT !.physicians = [x \in DOMAIN st.physicians \ {p} |-> st.physicians[x]]]

\* Physicians an administrator removes; the third one stays, so the store
\* is never empty again and seed_sample_data keeps returning early.
DeleteTargets == {1, 2}

\* The directory removes physician p: DELETE and commit on handle c.  When
\* another handle holds the write lock the DELETE raises and nothing changes.
delete_physician(c, p) ==
  /\ tables /\ c \in opened
  /\ CanWrite(c)
  /\ committed' = Cascade(View(c), p)
  /\ pending' = EmptyStore
  /\ lockHolder' = {}
  /\ UNCHANGED <<tables, opened, nextAppt, pc, loc, ret, listed, shown, hist>>

NextDel ==
  \/ \E c \in Conns : init_db(c)
  \/ \E c \in Conns, now \in SeedClock : seed_sample_data(c, now)
  \/ \E t \in Callers, c \in Conns, id \in FairSlotIds, u \in FairPatients :
       book_call(t, c, id, u)
  \/ \E t \in Callers : book_step(t)
  \/ \E t \in Callers : book_raise(t)
  \/ \E c \in Conns, p \in DeleteTargets : delete_physician(c, p)

SpecDel == Init /\ [][NextDel]_vars

\* ================================================================== claims
Returned(t) == pc[t] = "done"
Succeeded(t) == Returned(t) /\ ret[t].err = ErrNone
Raised(t) == Returned(t) /\ ret[t].err = ErrRaised

\* An appointment carries no slot id: it is for the slot whose physician and
\* start/end instants it copies.
SameSlot(appt, row) ==
  /\ appt.physician_id = row.physician_id
  /\ appt.start_utc = row.start_utc
  /\ appt.end_utc = row.end_utc

SlotAppts(st, id) ==
  {a \in DOMAIN st.appointments : SameSlot(st.appointments[a], st.availability[id])}

Overlapped(t, u) == u \in hist[t].peers \/ t \in hist[u].peers

\* C1: of two overlapping book_slot calls on the same slot, free when each
\* began, that both return without an exception, exactly one returns an
\* appointment, the other returns "Sorry, this slot was just booked.", and
\* the slot is booked.
C1_ExactlyOneWinner ==
  \A t, u \in Callers :
    ( /\ t # u /\ Returned(t) /\ Returned(u)
      /\ ~Raised(t) /\ ~Raised(u)
      /\ loc[t].slot_id = loc[u].slot_id
      /\ hist[t].free /\ hist[u].free
      /\ Overlapped(t, u) )
    => /\ Succeeded(t) # Succeeded(u)
       /\ Succeeded(t) => ret[u].err = ErrJustBooked
       /\ Succeeded(u) => ret[t].err = ErrJustBooked
       /\ committed.availability[loc[t].slot_id].booked = 1

\* C2: as long as no call has raised, the committed store holds at most one
\* appointment for any slot.
C2_OneAppointmentPerSlot ==
  (\A t \in Callers : ~Raised(t))
  => \A id \in DOMAIN committed.availability :
       Cardinality(SlotAppts(committed, id)) <= 1

\* C3: as long as no call has raised, in the committed store a slot has an
\* appointment if and only if it is booked.
C3_AppointmentIffClaimed ==
  (\A t \in Callers : ~Raised(t))
  => \A id \in DOMAIN committed.availability :
       (SlotAppts(committed, id) # {}) <=> (committed.availability[id].booked = 1)

\* C4: after a book_slot call was aborted by an exception, the committed
\* store never holds the appointment that call inserted, and its slot is
\* booked only if another call booked it.
C4_AbortLeavesNothing ==
  \A t \in Callers :
    Raised(t) =>
      /\ loc[t].appt_id \notin DOMAIN committed.appointments
      /\ \/ loc[t].slot_id \notin DOMAIN committed.availability
         \/ committed.availability[loc[t].slot_id].booked = 0
         \/ \E u \in Callers : u # t /\ Succeeded(u) /\ loc[u].slot_id = loc[t].slot_id

\* C5: a slot that is booked, in the committed store or in the store as any
\* handle sees it, is still there and booked after every step.
C5_ClaimedStaysClaimed ==
  [][ /\ \A id \in DOMAIN committed.availability :
           committed.availability[id].booked = 1
           => /\ id \in DOMAIN committed'.availability
              /\ committed'.availability[id].booked = 1
      /\ \A c \in Conns : \A id \in DOMAIN View(c).availability :
           View(c).availability[id].booked = 1
           => /\ id \in DOMAIN View(c)'.availability
              /\ View(c)'.availability[id].booked = 1 ]_vars

\* C5 witness: a booked slot on which a later book_slot call has run and
\* been turned away.
C5_Witness ==
  \E t \in Callers :
    /\ Returned(t) /\ ret[t].err = ErrJustBooked
    /\ committed.availability[loc[t].slot_id].booked = 1

\* C6: when book_slot reads a slot id the store does not hold it returns
\* "Slot not found."; when it reads a slot the committed store has booked it
\* returns "Sorry, this slot was just booked."; and a call that returns
\* either has inserted nothing and its returning step changes no row.
C6_RejectsWithoutWriting ==
  [][ \A t \in Callers :
        /\ (pc[t] = "select_slot" /\ pc'[t] # "select_slot")
           => LET id == loc[t].slot_id
              IN /\ id \notin DOMAIN committed.availability
                    => ret'[t].err = ErrSlotNotFound
                 /\ (id \in DOMAIN committed.availability
                     /\ committed.availability[id].booked = 1)
                    => ret'[t].err = ErrJustBooked
        /\ (pc[t] # "done" /\ pc'[t] = "done"
            /\ ret'[t].err \in {ErrSlotNotFound, ErrJustBooked})
           => /\ committed' = committed /\ pending' = pending
              /\ ret'[t].appt_id = NoAppt
              /\ loc'[t].appt_id = NoAppt ]_vars

\* C6 witness: a call on a booked slot has been turned away having written
\* nothing: the slot still has the one appointment of the call that booked it.
C6_Witness ==
  \E t \in Callers :
    /\ Returned(t) /\ ret[t].err = ErrJustBooked
    /\ loc[t].appt_id = NoAppt
    /\ lockHolder = {}
    /\ Cardinality(SlotAppts(committed, loc[t].slot_id)) = 1

\* C7: a book_slot call whose user_tz is no known zone returns a failure and
\* inserts no appointment.
C7_InvalidZoneRejected ==
  \A t \in Callers :
    (Returned(t) /\ loc[t].user_tz \notin KnownZones)
    => /\ ret[t].err # ErrNone
       /\ loc[t].appt_id \notin DOMAIN committed.appointments

\* ---- C8
\* end >= now and end > now on instants: a slot ends on a whole tick, now is
\* the tick now.t plus a fraction that is zero exactly when now.micro = 0.
EndAtOrAfter(row, now) == row.end_utc.sec > now.t \/ (row.end_utc.sec = now.t /\ now.micro = 0)
EndAfter(row, now) == row.end_utc.sec > now.t

\* The listing L holds exactly the slots keep, each once, by ascending start.
ListingIs(L, keep) ==
  /\ {L.rows[i].id : i \in DOMAIN L.rows} = keep
  /\ Len(L.rows) = Cardinality(keep)
  /\ \A i, j \in DOMAIN L.rows : i < j => L.rows[i].start_utc.sec < L.rows[j].start_utc.sec

C9_LoneBookingSucceeds ==
  [][ \A t \in Callers :
        ( /\ pc[t] # "done" /\ pc'[t] = "done"
          /\ hist[t].free /\ hist'[t].peers = {}
          /\ ret'[t].err # ErrRaised )
        => LET st == View(loc[t].conn)'
               id == loc[t].slot_id
               a == ret'[t].appt_id
           IN /\ ret'[t].err = ErrNone
              /\ a # NoAppt
              /\ st.availability[id].booked = 1
              /\ DOMAIN st.appointments \ hist[t].appts0 = {a}
              /\ a \in DOMAIN committed'.appointments
              /\ SameSlot(st.appointments[a], st.availability[id])
              /\ st.appointments[a].status = "scheduled"
              /\ st.appointments[a].user_name = loc[t].user_name
              /\ st.appointments[a].user_email = loc[t].user_email
              /\ st.appointments[a].user_timezone = loc[t].user_tz
              /\ st.appointments[a].reason = loc[t].reason ]_vars

\* C9 witness: a call that overlapped no other has booked a free slot.
C9_Witness ==
  \E t \in Callers :
    /\ Succeeded(t) /\ hist[t].free /\ hist[t].peers = {}
    /\ ret[t].appt_id \in DOMAIN committed.appointments
    /\ committed.availability[loc[t].slot_id].booked = 1

\* ---- C10
\* C10: every appointment in the store, committed or not, carries the
\* full_name its book_slot call read, whatever the physician is called now.
C10_NameFixedAtBooking ==
  \A t \in Callers :
    /\ loc[t].appt_id \in DOMAIN committed.appointments
       => committed.appointments[loc[t].appt_id].physician_name = hist[t].name_read
    /\ loc[t].appt_id \in DOMAIN pending.appointments
       => pending.appointments[loc[t].appt_id].physician_name = hist[t].name_read

\* C10 witness: a committed appointment of a returned call whose physician
\* now has another name.
C10_Witness ==
  \E t \in Callers :
    /\ Succeeded(t)
    /\ ret[t].appt_id \in DOMAIN committed.appointments
    /\ LET a == committed.appointments[ret[t].appt_id]
       IN /\ a.physician_id \in DOMAIN committed.physicians
          /\ committed.physicians[a.physician_id].full_name # a.physician_name

\* ---- C11
\* C11: two overlapping book_slot calls on two different slots, each free
\* with its physician present when its call began, both return an
\* appointment, and each slot ends booked with exactly one appointment.
C11_DistinctSlotsBothSucceed ==
  \A t, u \in Callers :
    ( /\ t # u /\ Returned(t) /\ Returned(u)
      /\ loc[t].slot_id # loc[u].slot_id
      /\ hist[t].free /\ hist[u].free
      /\ Overlapped(t, u) )
    => /\ Succeeded(t) /\ Succeeded(u)
       /\ \A id \in {loc[t].slot_id, loc[u].slot_id} :
            /\ committed.availability[id].booked = 1
            /\ Cardinality(SlotAppts(committed, id)) = 1

\* ---- C12
\* C12: with every calling thread scheduled fairly, each book_slot call that
\* has begun ends, by returning an appointment, returning a message or
\* raising; no call stays inside book_slot forever behind another call.
C12_EveryCallEnds == \A t \in Callers : Active(t) ~> Returned(t)

\* A call ended while another handle's abandoned transaction still holds the
\* write lock: it had to give up waiting.
C12_Witness ==
  \E t, u \in Callers :
    /\ t # u /\ Raised(t) /\ Raised(u)
    /\ loc[t].conn # loc[u].conn
    /\ lockHolder = {loc[u].conn}
    /\ hist[t].free /\ hist[u].free

\* ---- C13
\* C13: in every state, in the committed store and in an open transaction,
\* each availability row's physician_id is the id of a physicians row; so
\* removing a physician removes all of its slots.
C13_SlotsHavePhysician ==
  \A st \in {committed, pending} :
    \A id \in DOMAIN st.availability :
      st.availability[id].physician_id \in DOMAIN st.physicians

\* Physician 1 has been removed from a seeded store; others remain with slots.
C13_Witness ==
  /\ tables
  /\ 1 \notin DOMAIN committed.physicians
  /\ 3 \in DOMAIN committed.physicians
  /\ SlotIdOf(3, 0, 14) \in DOMAIN committed.availability
  /\ SlotIdOf(1, 0, 14) \notin DOMAIN committed.availability

\* ---- C14
\* C14: every appointments row, committed or in an open transaction, has
\* status 'scheduled', and no step changes the status of a row that exists.
C14_AlwaysScheduled ==
  [][ /\ \A a \in DOMAIN committed'.appointments :
           committed'.appointments[a].status = "scheduled"
      /\ \A a \in DOMAIN pending'.appointments :
           pending'.appointments[a].status = "scheduled"
      /\ \A a \in DOMAIN committed.appointments \cap DOMAIN committed'.appointments :
           committed'.appointments[a].status = committed.appointments[a].status
      /\ \A a \in DOMAIN pending.appointments \cap DOMAIN committed'.appointments :
           committed'.appointments[a].status = pending.appointments[a].status ]_vars

\* Two appointments of two returned calls are committed.
C14_Witness ==
  /\ Cardinality(DOMAIN committed.appointments) = 2
  /\ \A t \in Callers : Succeeded(t)
  /\ lockHolder = {}

\* ---- C15
\* The wall time of instant t in zone z occurs at a second instant of z.
Ambiguous(t, z) ==
  \E u \in (t - 2 * TicksPerHour)..(t + 2 * TicksPerHour) :
    u # t /\ ToLocal(u, z) = ToLocal(t, z)

\* C15: an instant shown in a zone and read back in that zone is the same
\* instant, unless its wall time occurs twice in the zone; and a seeded
\* slot shown in its physician's zone starts at 14:00, 15:00 or 16:00, the
\* hour it was built from, and ends 30 minutes later.
C15_RoundTrip ==
  /\ (shown # <<>> /\ shown.kind = "trip" /\ ~Ambiguous(shown.instant, shown.zone))
       => shown.back = shown.instant
  /\ (shown # <<>> /\ shown.kind = "slot")
       => /\ shown.start_local % TicksPerDay = shown.id[3] * TicksPerHour
          /\ shown.end_local = shown.start_local + SlotTicks

\* Both cases occur: an instant of Madrid's summer time came back unchanged,
\* or a Madrid slot after the end of summer time was shown.
C15_Witness ==
  /\ shown # <<>>
  /\ shown.zone = "Europe/Madrid"
  /\ \/ /\ shown.kind = "trip"
        /\ shown.instant < DstEndTick - 2 * TicksPerHour
        /\ shown.back = shown.instant
        /\ shown.local # shown.instant
     \/ /\ shown.kind = "slot"
        /\ shown.id[2] = SeedDays - 1
        /\ shown.start_local > DstEndTick

\* ---- C16
\* C16: a book_slot call that has read a free slot and then finds no
\* physicians row for the slot's physician_id returns "Physician not found."
\* with no appointment id, and its step writes nothing: no appointment is
\* added and no slot's booked flag changes.
C16_MissingPhysicianFails ==
  [][ \A t \in Callers :
        ( /\ pc[t] = "select_physician"
          /\ pc'[t] # pc[t]
          /\ loc[t].row.physician_id \notin DOMAIN View(loc[t].conn).physicians )
        => /\ ret'[t] = [appt_id |-> NoAppt, err |-> ErrPhysicianNotFound]
           /\ committed' = committed
           /\ pending' = pending
           /\ lockHolder' = lockHolder ]_vars

\* A call on a slot that was free, with its physician present, when the call
\* began has returned "Physician not found.".
C16_Witness ==
  \E t \in Callers :
    /\ Returned(t)
    /\ ret[t] = [appt_id |-> NoAppt, err |-> ErrPhysicianNotFound]
    /\ hist[t].free
    /\ loc[t].row.physician_id \notin DOMAIN committed.physicians

\* ---- C17
\* C17: a statement of a book_slot call for slot S, in the store as the call's
\* handle sees it, removes no slot, changes no field of another slot and only
\* the booked flag of S, keeps every appointment that was there unchanged,
\* and adds at most one appointment, which only the INSERT step does.
C17_OnlyOwnSlot ==
  [][ \A t \in Callers :
        (Active(t) /\ pc'[t] # pc[t])
        => LET c == loc[t].conn
               v == View(c)
               w == IF c \in lockHolder' THEN pending' ELSE committed'
               added == DOMAIN w.appointments \ DOMAIN v.appointments
           IN /\ DOMAIN w.availability = DOMAIN v.availability
              /\ \A id \in DOMAIN v.availability :
                   /\ id # loc[t].slot_id => w.availability[id] = v.availability[id]
                   /\ w.availability[id].physician_id = v.availability[id].physician_id
                   /\ w.availability[id].start_utc = v.availability[id].start_utc
                   /\ w.availability[id].end_utc = v.availability[id].end_utc
              /\ \A a \in DOMAIN v.appointments :
                   a \in DOMAIN w.appointments /\ w.appointments[a] = v.appointments[a]
              /\ Cardinality(added) <= 1
              /\ added # {} => pc[t] = "insert" /\ added = {loc'[t].appt_id} ]_vars

\* A call has booked its slot while an earlier appointment and another
\* booked slot exist beside it.
C17_Witness ==
  \E t, u \in Callers :
    /\ t # u /\ Succeeded(t) /\ Succeeded(u)
    /\ ~Overlapped(t, u)
    /\ loc[t].slot_id # loc[u].slot_id
    /\ ret[t].appt_id # ret[u].appt_id
    /\ {ret[t].appt_id, ret[u].appt_id} = DOMAIN committed.appointments
    /\ committed.availability[loc[t].slot_id].booked = 1
    /\ committed.availability[loc[u].slot_id].booked = 1

\* ---- C18
\* C18: while no call has raised, every booked slot of the committed store
\* has at least one committed appointment with its physician_id, start_utc
\* and end_utc; and once every call that began has returned, the committed
\* appointments are as many as the calls that returned an appointment.
C18_AppointmentsMatchCalls ==
  (\A t \in Callers : ~Raised(t))
  => /\ \A id \in DOMAIN committed.availability :
          committed.availability[id].booked = 1 => SlotAppts(committed, id) # {}
     /\ (\A t \in Callers : ~Active(t))
          => Cardinality(DOMAIN committed.appointments)
               = Cardinality({t \in Callers : Succeeded(t)})

\* Two calls on one slot both returned an appointment: the slot is booked
\* and carries two appointments.
C18_Witness ==
  \E t, u \in Callers :
    /\ t # u /\ Succeeded(t) /\ Succeeded(u)
    /\ loc[t].slot_id = loc[u].slot_id
    /\ committed.availability[loc[t].slot_id].booked = 1
    /\ Cardinality(SlotAppts(committed, loc[t].slot_id)) = 2
    /\ lockHolder = {}

====
